---- MODULE Spec2Model ----
(***************************************************************************)
(* Model of the UTF validator's classifier, validator.py.                  *)
(*                                                                         *)
(* A path is a sequence of one-character strings.  The content of a file   *)
(* is a sequence of runs <<b, n>>, n >= 1 copies of the byte b, so that a  *)
(* file of twenty thousand characters is a short value.  Percentages are   *)
(* integers in hundredths of a percent: 10000 is 100.0, 8999 is 89.99.     *)
(* An optional value (Python's None or a value) is <<>> or <<v>>.          *)
(***************************************************************************)
EXTENDS Integers, Sequences, FiniteSets, TLC

\* ------------------------------------------------------------------------
\* Bounds of the model.
\* ------------------------------------------------------------------------

\* Longest file content, in runs.
MaxRuns == 4

\* Longest file content, in runs, that is tried under every path.
MaxRunsAnyPath == 2

\* ------------------------------------------------------------------------
\* Python values.
\* ------------------------------------------------------------------------

None == <<>>

Some(v) == <<v>>

\* ------------------------------------------------------------------------
\* validator.py: the extension tables.
\* ------------------------------------------------------------------------

BINARY_EXTENSIONS ==
    { <<".", "p", "d", "f">>, <<".", "x", "l", "s">>, <<".", "x", "l", "s", "x">>,
      <<".", "d", "o", "c">>, <<".", "d", "o", "c", "x">>, <<".", "p", "p", "t">>,
      <<".", "p", "p", "t", "x">>,
      <<".", "z", "i", "p">>, <<".", "r", "a", "r">>, <<".", "e", "x", "e">>,
      <<".", "p", "n", "g">>, <<".", "j", "p", "g">>, <<".", "j", "p", "e", "g">>,
      <<".", "g", "i", "f">>,
      <<".", "m", "p", "3">>, <<".", "m", "p", "4">>, <<".", "a", "v", "i">>,
      <<".", "m", "k", "v">>, <<".", "w", "a", "v">>, <<".", "b", "m", "p">>,
      <<".", "i", "c", "o">>,
      <<".", "d", "b">>, <<".", "s", "q", "l", "i", "t", "e">>,
      <<".", "p", "y", "c">>, <<".", "c", "l", "a", "s", "s">> }

\* ------------------------------------------------------------------------
\* os.path.splitext and str.lower, as scan_single_file uses them.
\* ------------------------------------------------------------------------

UpperCase == <<"A", "B", "C", "D", "E", "F", "G", "H", "I", "J", "K", "L", "M",
               "N", "O", "P", "Q", "R", "S", "T", "U", "V", "W", "X", "Y", "Z">>

LowerCase == <<"a", "b", "c", "d", "e", "f", "g", "h", "i", "j", "k", "l", "m",
               "n", "o", "p", "q", "r", "s", "t", "u", "v", "w", "x", "y", "z">>

\* str.lower on one character: an upper-case letter becomes its lower-case
\* letter, every other character is kept.
LowerChar(c) ==
    IF \E i \in 1..26 : UpperCase[i] = c
    THEN LowerCase[CHOOSE i \in 1..26 : UpperCase[i] = c]
    ELSE c

lower(s) == [i \in 1..Len(s) |-> LowerChar(s[i])]

\* str.rfind of a one-character string: the last index (from 1) holding c,
\* and 0 when there is none (Python: from 0, and -1).
rfind(p, c) ==
    IF \E i \in 1..Len(p) : p[i] = c
    THEN CHOOSE i \in 1..Len(p) : p[i] = c /\ \A j \in (i+1)..Len(p) : p[j] # c
    ELSE 0

\* os.path.splitext(p)[1]: the text from the last dot of the last path
\* component on, unless that dot is preceded only by dots in the component.
splitext_ext(p) ==
    LET sepIndex == rfind(p, "/")
        dotIndex == rfind(p, ".")
    IN  IF dotIndex > sepIndex
           /\ \E k \in (sepIndex+1)..(dotIndex-1) : p[k] # "."
        THEN SubSeq(p, dotIndex, Len(p))
        ELSE <<>>

ext(file_path) == lower(splitext_ext(file_path))

RECURSIVE PathStr(_)
\* The path as one string, for the messages of the operating system.
PathStr(p) == IF p = <<>> THEN "" ELSE Head(p) \o PathStr(Tail(p))

\* ------------------------------------------------------------------------
\* bytes.decode("utf-8", ...): the UTF-8 decoder of the Python runtime.
\* ------------------------------------------------------------------------

\* The length in bytes of the sequence a lead byte announces; 0 for a byte
\* that starts no multi-byte sequence (ASCII, a continuation byte, C0, C1,
\* F5..FF).
SeqLen(b) ==
    IF b >= 194 /\ b <= 223 THEN 2
    ELSE IF b >= 224 /\ b <= 239 THEN 3
    ELSE IF b >= 240 /\ b <= 244 THEN 4
    ELSE 0

\* Whether c may follow the lead byte after `got` accepted continuation
\* bytes.  The first continuation byte is narrowed by the lead: E0 excludes
\* overlong forms, ED the surrogates, F0 overlong forms, F4 what lies beyond
\* U+10FFFF.
IsContinuation(lead, got, c) ==
    IF got = 0
    THEN /\ c >= (IF lead = 224 THEN 160 ELSE IF lead = 240 THEN 144 ELSE 128)
         /\ c <= (IF lead = 237 THEN 159 ELSE IF lead = 244 THEN 143 ELSE 191)
    ELSE c >= 128 /\ c <= 191

\* The decoder before the first byte.  lead = 0: no sequence is open.  len is
\* the number of characters decoded so far, fffd how many of them are U+FFFD
\* (substituted, or decoded from EF BF BD), subst how many were substituted
\* for an invalid byte sequence.
DecoderStart == [lead |-> 0, got |-> 0, second |-> 0, len |-> 0, fffd |-> 0, subst |-> 0]

\* Substitute, were the decode done with errors="ignore": the invalid bytes
\* are dropped and leave no character.
Substitute_ignore(st) ==
    [st EXCEPT !.lead = 0, !.got = 0, !.second = 0, !.subst = @ + 1]

\* One substitution: the open sequence, or one invalid start byte, becomes
\* one U+FFFD.
Substitute(st) ==
    [st EXCEPT !.lead = 0, !.got = 0, !.second = 0,
               !.len = @ + 1, !.fffd = @ + 1, !.subst = @ + 1]

\* A byte met while no sequence is open.
StartByte(st, c) ==
    IF c < 128 THEN [st EXCEPT !.len = @ + 1]
    ELSE IF SeqLen(c) = 0 THEN Substitute(st)
    ELSE [st EXCEPT !.lead = c, !.got = 0, !.second = 0]

\* The decoder after one more byte, with errors="replace".
DecodeByte(st, c) ==
    IF st.lead = 0 THEN StartByte(st, c)
    ELSE IF IsContinuation(st.lead, st.got, c)
    THEN IF st.got + 2 = SeqLen(st.lead)
         THEN [st EXCEPT !.lead = 0, !.got = 0, !.second = 0,
                         !.len = @ + 1,
                         !.fffd = @ + (IF st.lead = 239 /\ st.second = 191 /\ c = 189
                                       THEN 1 ELSE 0)]
         ELSE [st EXCEPT !.got = @ + 1, !.second = IF st.got = 0 THEN c ELSE @]
    ELSE StartByte(Substitute(st), c)

\* A byte that is a whole character or a whole invalid sequence by itself:
\* after it no sequence is open, whatever came before.
SelfContained(b) == SeqLen(b) = 0 /\ (b < 128 \/ b > 191)

RECURSIVE DecodeRun(_, _, _)
\* The decoder after n copies of the byte b.
DecodeRun(st, b, n) ==
    IF n = 0 THEN st
    ELSE LET s1 == DecodeByte(st, b)
         IN  IF SelfContained(b)
             THEN [s1 EXCEPT !.len = @ + (n - 1),
                             !.fffd = @ + (IF b < 128 THEN 0 ELSE n - 1),
                             !.subst = @ + (IF b < 128 THEN 0 ELSE n - 1)]
             ELSE DecodeRun(s1, b, n - 1)

RECURSIVE DecodeRuns(_, _)
DecodeRuns(st, raw) ==
    IF raw = <<>> THEN st
    ELSE DecodeRuns(DecodeRun(st, Head(raw)[1], Head(raw)[2]), Tail(raw))

\* raw.decode("utf-8", errors="replace"): a sequence left open at the end of
\* the data is substituted as well.
decode_replace(raw) ==
    LET st == DecodeRuns(DecoderStart, raw)
    IN  IF st.lead = 0 THEN st ELSE Substitute(st)

RECURSIVE len(_)
\* len(raw), in bytes.
len(raw) == IF raw = <<>> THEN 0 ELSE Head(raw)[2] + len(Tail(raw))

\* strict_decodes, were the strict decode to raise on every content.
strict_decodes_never(raw) == FALSE

\* strict_decodes, were the strict decode done with the ascii codec: every
\* byte has to be a character by itself.
strict_decodes_ascii(raw) ==
    decode_replace(raw).subst = 0 /\ decode_replace(raw).len = len(raw)

\* strict_decodes, were the first decode done with errors="ignore": it never
\* raises.
strict_decodes_ignore(raw) == decode_replace(raw).subst >= 0

\* raw.decode("utf-8", errors="strict") raises UnicodeDecodeError exactly
\* where errors="replace" substitutes.
strict_decodes(raw) == decode_replace(raw).subst = 0

RECURSIVE ByteAt(_, _)
\* raw[i - 1]: the i-th byte of the content, from 1.
ByteAt(raw, i) ==
    IF i <= Head(raw)[2] THEN Head(raw)[1] ELSE ByteAt(Tail(raw), i - Head(raw)[2])

\* raw.startswith(b'\xef\xbb\xbf')
startswith_bom(raw) ==
    /\ len(raw) >= 3
    /\ ByteAt(raw, 1) = 239 /\ ByteAt(raw, 2) = 187 /\ ByteAt(raw, 3) = 191

\* ------------------------------------------------------------------------
\* The file system and the encoding guesser, as scan_single_file meets them.
\* ------------------------------------------------------------------------

\* What open(file_path, "rb") and f.read() do with a file of each kind.  A
\* regular file is read whole; the others raise.
OpenFailures == {"missing", "denied", "directory"}

ReadFailures == {"io_error", "out_of_memory"}

\* The exception open() or read() raises: its class and str(e).
FileError(file_path, kind) ==
    IF kind = "missing"
    THEN [cls |-> "FileNotFoundError",
          msg |-> "[Errno 2] No such file or directory: '" \o PathStr(file_path) \o "'"]
    ELSE IF kind = "denied"
    THEN [cls |-> "PermissionError",
          msg |-> "[Errno 13] Permission denied: '" \o PathStr(file_path) \o "'"]
    ELSE IF kind = "directory"
    THEN [cls |-> "IsADirectoryError",
          msg |-> "[Errno 21] Is a directory: '" \o PathStr(file_path) \o "'"]
    ELSE IF kind = "io_error"
    THEN [cls |-> "OSError", msg |-> "[Errno 5] Input/output error"]
    ELSE [cls |-> "MemoryError", msg |-> ""]

\* The classes of OSError among the exceptions above.
OSErrorClasses == {"OSError", "FileNotFoundError", "PermissionError", "IsADirectoryError"}

\* The classes `except Exception` catches.
ExceptionClasses == OSErrorClasses \cup {"MemoryError", "UnicodeDecodeError"}

Return(v) == [raised |-> FALSE, value |-> v]

Raise(e) == [raised |-> TRUE, value |-> e]

\* ------------------------------------------------------------------------
\* validator.py: scan_single_file.
\* ------------------------------------------------------------------------

\* is_binary_ext, were .lower() left out.
is_binary_ext_case_sensitive(file_path) == splitext_ext(file_path) \in BINARY_EXTENSIONS

\* ext in BINARY_EXTENSIONS, with ext = os.path.splitext(file_path)[1].lower()
is_binary_ext(file_path) == ext(file_path) \in BINARY_EXTENSIONS

\* The result for a binary extension: nothing is opened or read.
binary_result ==
    [utf_percent |-> 0, non_utf_percent |-> 10000,
     total_chars |-> 0, non_utf_chars |-> 0,
     is_utf |-> FALSE, is_mostly_utf |-> FALSE, is_binary |-> TRUE,
     detected_encoding |-> "Binary", error |-> None]

\* is_empty, were the empty case left out.
is_empty_never(raw) == FALSE

\* len(raw) == 0
is_empty(raw) == len(raw) = 0

\* The result for a file of no bytes.
empty_result ==
    [utf_percent |-> 10000, non_utf_percent |-> 0,
     total_chars |-> 0, non_utf_chars |-> 0,
     is_utf |-> TRUE, is_mostly_utf |-> TRUE, is_binary |-> FALSE,
     detected_encoding |-> "UTF-8 (empty)", error |-> None]

\* enc_label, were the mark looked for with raw.startswith(b'\xff\xfe'), the
\* mark of UTF-16: no valid UTF-8 starts with it.
enc_label_utf16_mark(raw) ==
    IF len(raw) >= 2 /\ ByteAt(raw, 1) = 255 /\ ByteAt(raw, 2) = 254
    THEN "UTF-8 (BOM)" ELSE "UTF-8"

\* enc_label = "UTF-8 (BOM)" if has_bom else "UTF-8"
enc_label(raw) == IF startswith_bom(raw) THEN "UTF-8 (BOM)" ELSE "UTF-8"

\* Step 1: the result when the strict decode succeeds.
strict_result(raw) ==
    [utf_percent |-> 10000, non_utf_percent |-> 0,
     total_chars |-> decode_replace(raw).len, non_utf_chars |-> 0,
     is_utf |-> TRUE, is_mostly_utf |-> TRUE, is_binary |-> FALSE,
     detected_encoding |-> enc_label(raw), error |-> None]

\* percent_of, were the division written // (floor division).
percent_of_floordiv(part, total_chars) ==
    IF total_chars > 0
    THEN [num |-> (part \div total_chars) * 100, den |-> 1]
    ELSE [num |-> 0, den |-> 1]

\* (part / total_chars) * 100 if total_chars > 0 else 0.0, kept exact as the
\* fraction num / den.
percent_of(part, total_chars) ==
    IF total_chars > 0
    THEN [num |-> part * 100, den |-> total_chars]
    ELSE [num |-> 0, den |-> 1]

\* round2 by cutting the digits after the second decimal.
round2_floor(x, up) == (x.num * 100) \div x.den

\* round(x, 2) in hundredths.  A value halfway between two hundredths goes
\* where its binary floating-point representation lies, below or above the
\* half: `up` is that direction.
round2(x, up) ==
    LET q == (x.num * 100) \div x.den
        r == (x.num * 100) % x.den
    IN  IF 2 * r < x.den THEN q
        ELSE IF 2 * r > x.den THEN q + 1
        ELSE IF up THEN q + 1 ELSE q

\* utf_percent >= 90.0, on the value before rounding.
is_mostly_utf_of(utf_percent) == utf_percent.num >= 90 * utf_percent.den

\* f"{confidence:.0%}": the confidence, here in thousandths, as a whole
\* percentage.
confidence_percent(confidence) ==
    LET q == confidence \div 10
        r == confidence % 10
    IN  IF r < 5 THEN q
        ELSE IF r > 5 THEN q + 1
        ELSE IF q % 2 = 0 THEN q ELSE q + 1

\* detection.get("encoding") or "Unknown"
detected_enc_of(detection) ==
    IF detection.encoding = None THEN "Unknown" ELSE detection.encoding[1]

\* f"{detected_enc} ({confidence:.0%} confidence)"
fallback_label(detection) ==
    detected_enc_of(detection) \o " (" \o
        ToString(confidence_percent(detection.confidence)) \o "% confidence)"

\* fallback_is_utf, were is_utf derived from the percentage: utf_percent
\* rounds to 100.0.
fallback_is_utf_by_percent(utf_percent) ==
    utf_percent.num * 200 >= 19999 * utf_percent.den

\* is_utf of Step 2: the strict check failed.
fallback_is_utf(utf_percent) == FALSE

\* Step 2: the result when the strict decode fails.  decoded is
\* raw.decode("utf-8", errors="replace"), detection what chardet.detect(raw)
\* returned, ties the directions of the two roundings.
fallback_result(decoded, detection, ties) ==
    LET total_chars     == decoded.len
        non_utf_chars   == decoded.fffd
        utf_chars       == total_chars - non_utf_chars
        utf_percent     == percent_of(utf_chars, total_chars)
        non_utf_percent == percent_of(non_utf_chars, total_chars)
    IN  [utf_percent |-> round2(utf_percent, ties[1]),
         non_utf_percent |-> round2(non_utf_percent, ties[2]),
         total_chars |-> total_chars, non_utf_chars |-> non_utf_chars,
         is_utf |-> fallback_is_utf(utf_percent),
         is_mostly_utf |-> is_mostly_utf_of(utf_percent),
         is_binary |-> FALSE,
         detected_encoding |-> fallback_label(detection), error |-> None]

\* The result of the handler of `except Exception as e`.
error_result(e) ==
    [utf_percent |-> 0, non_utf_percent |-> 10000,
     total_chars |-> 0, non_utf_chars |-> 0,
     is_utf |-> FALSE, is_mostly_utf |-> FALSE, is_binary |-> FALSE,
     detected_encoding |-> "Error", error |-> Some(e.msg)]

\* catches, were the handler written `except OSError`.
catches_oserror(e) == e.cls \in OSErrorClasses

\* catches, were the handler written `except FileNotFoundError`.
catches_filenotfound(e) == e.cls = "FileNotFoundError"

\* `except Exception`
catches(e) == e.cls \in ExceptionClasses

\* What chardet.detect(raw) may return: no guess, or a guess with its
\* confidence in thousandths.
Detections ==
    { [encoding |-> None, confidence |-> 0],
      [encoding |-> Some("ISO-8859-1"), confidence |-> 730] }

\* The body of the try statement: open and read the file, then the empty
\* case, Step 1 and Step 2.  The value is the set of its possible outcomes:
\* Step 2 depends on the guess of chardet and on the floating-point roundings.
try_body(file_path, file) ==
    IF file.kind # "regular" THEN {Raise(FileError(file_path, file.kind))}
    ELSE IF is_empty(file.raw) THEN {Return(empty_result)}
    ELSE IF strict_decodes(file.raw) THEN {Return(strict_result(file.raw))}
    ELSE LET decoded == decode_replace(file.raw)
         IN  { Return(fallback_result(decoded, detection, ties)) :
                  detection \in Detections, ties \in BOOLEAN \X BOOLEAN }

\* The try statement with its handler.
try_except(file_path, file) ==
    { IF body.raised /\ catches(body.value)
      THEN Return(error_result(body.value))
      ELSE body : body \in try_body(file_path, file) }

\* scan_single_file(file_path), where file is what the file system holds at
\* file_path: the set of its possible outcomes.
scan_single_file(file_path, file) ==
    IF is_binary_ext(file_path) THEN {Return(binary_result)}
    ELSE try_except(file_path, file)

\* ------------------------------------------------------------------------
\* The inputs of the model.
\* ------------------------------------------------------------------------

\* a.txt
TextPath == <<"a", ".", "t", "x", "t">>

\* a.txt, a.PNG, .png, d.zip/a, a.tar.zip
Paths ==
    { TextPath,
      <<"a", ".", "P", "N", "G">>,
      <<".", "p", "n", "g">>,
      <<"d", ".", "z", "i", "p", "/", "a">>,
      <<"a", ".", "t", "a", "r", ".", "z", "i", "p">> }

\* Single bytes: "A", the continuation bytes BB, BD, BF, the leads C3 (two
\* bytes) and EF (three bytes), and FF, which no UTF-8 sequence contains.
\* Long runs: of "A" and of FF.
Runs ==
    { <<b, 1>> : b \in {65, 187, 189, 191, 195, 239, 255} }
        \cup { <<65, 279>>, <<65, 1808>>, <<65, 20000>>, <<255, 201>> }

RawInputs == UNION { [1..n -> Runs] : n \in 0..MaxRuns }

Files ==
    [kind : {"regular"}, raw : RawInputs]
        \cup [kind : OpenFailures \cup ReadFailures, raw : {<<>>}]

ShortFiles == { f \in Files : Len(f.raw) <= MaxRunsAnyPath }

\* ------------------------------------------------------------------------
\* The state machine: one call of scan_single_file.
\* ------------------------------------------------------------------------

VARIABLES
    file_path,   \* the argument of the call
    file,        \* what the file system holds there: its kind and its bytes
    pc,          \* "call" before the call, "returned" or "raised" after it
    result       \* the dictionary returned, or the exception raised

\* The state of a scan of a file or a folder: ScanThread.run, scan_folder,
\* and what the window keeps of it.
VARIABLES
    disk,          \* the folder on disk: its files and its sub-folders
    thread,        \* the ScanThread: its file_path and folder_path
    run,           \* the call under way: its position and its local variables
    data,          \* the dictionary emitted with finished_signal
    last_results,  \* UTFValidatorApp._last_results
    cards,         \* the numbers the summary cards and the average bar show
    csv_rows       \* the rows export_csv wrote, after the header

\* The window, UTFValidatorApp, around the scans.
VARIABLES
    pdf_summary,    \* the row of counts export_pdf wrote
    selected,       \* selected_file and selected_folder
    scan_btn,       \* whether the Start Scan button is enabled
    export_widget,  \* whether the export buttons are shown
    anim,           \* the AnimThread: its position
    ui,             \* the main thread: idle, in a dialog, or waiting in a handler
    cleared         \* history: clear_results has run since the last start_scan

fvars == <<file_path, file, pc, result>>

svars == <<disk, thread, run, data, last_results, cards, csv_rows>>

wvars == <<pdf_summary, selected, scan_btn, export_widget, anim, ui, cleared>>

vars == <<file_path, file, pc, result,
          disk, thread, run, data, last_results, cards, csv_rows,
          pdf_summary, selected, scan_btn, export_widget, anim, ui, cleared>>

\* The cards after init_ui and after clear_results.
NoCards == [total |-> 0, utf |-> 0, mixed |-> 0, non_utf |-> 0, binary |-> 0, avg |-> 0]

\* No scan: nothing on disk, no thread, nothing shown.
NoScan ==
    /\ disk = [files |-> <<>>, subdirs |-> <<>>]
    /\ thread = [file_path |-> None, folder_path |-> None]
    /\ run = [pc |-> "none"]
    /\ data = None
    /\ last_results = <<>>
    /\ cards = NoCards
    /\ csv_rows = None

\* The window after __init__, with no report written.
NoWindow ==
    /\ pdf_summary = None
    /\ selected = [file |-> None, folder |-> None]
    /\ scan_btn = TRUE
    /\ export_widget = FALSE
    /\ anim = [pc |-> "none", interrupted |-> FALSE]
    /\ ui = [loop |-> "window", handler |-> "none"]
    /\ cleared = FALSE

\* Every content under the path a.txt, the short contents under every path:
\* the extension is looked at before, and apart from, the content.
Init ==
    /\ \/ file_path = TextPath /\ file \in Files
       \/ file_path \in Paths /\ file \in ShortFiles
    /\ pc = "call"
    /\ result = None
    /\ NoScan
    /\ NoWindow

ScanSingleFile ==
    /\ pc = "call"
    /\ \E out \in scan_single_file(file_path, file) :
          /\ pc' = IF out.raised THEN "raised" ELSE "returned"
          /\ result' = out.value
    /\ UNCHANGED <<file_path, file>>
    /\ UNCHANGED svars
    /\ UNCHANGED wvars

Next == ScanSingleFile

Spec == Init /\ [][Next]_vars

\* ------------------------------------------------------------------------
\* The folder on disk, and os.walk, os.path.join, os.path.basename.
\* ------------------------------------------------------------------------

\* os.path.join(a, b)
join(a, b) ==
    IF b # <<>> /\ b[1] = "/" THEN b
    ELSE IF a = <<>> \/ a[Len(a)] = "/" THEN a \o b
    ELSE a \o <<"/">> \o b

\* os.path.basename(p)
basename(p) == SubSeq(p, rfind(p, "/") + 1, Len(p))

\* The names of the files of a folder, in the order the file system lists
\* them.
names(files) == [i \in 1..Len(files) |-> files[i].name]

RECURSIVE walk_subdirs(_, _)
\* os.walk below the top folder: one (root, files) per sub-folder that can be
\* listed.  With onerror left at None, os.walk passes over a folder it cannot
\* list and reports nothing.
walk_subdirs(top, subdirs) ==
    IF subdirs = <<>> THEN <<>>
    ELSE (IF Head(subdirs).listable
          THEN <<[root |-> join(top, Head(subdirs).name),
                  files |-> names(Head(subdirs).files)]>>
          ELSE <<>>)
         \o walk_subdirs(top, Tail(subdirs))

\* os.walk, were it to stay in the top folder.
walk_top_only(top, tree) == <<[root |-> top, files |-> names(tree.files)]>>

\* os.walk(top): the top folder first, then its sub-folders.
walk(top, tree) ==
    <<[root |-> top, files |-> names(tree.files)]>> \o walk_subdirs(top, tree.subdirs)

RECURSIVE walked_files(_)
\* for root, dirs, files in os.walk(..): for f in files: the pairs (root, f).
walked_files(walked) ==
    IF walked = <<>> THEN <<>>
    ELSE [i \in 1..Len(Head(walked).files) |->
             [root |-> Head(walked).root, f |-> Head(walked).files[i]]]
         \o walked_files(Tail(walked))

\* The folder every scan of the model is about: r
Root == <<"r">>

\* Every file below the top folder, with its full path and whether its folder
\* can be listed.
DiskFiles(top, tree) ==
    { [path |-> join(top, tree.files[i].name), file |-> tree.files[i].file,
       reachable |-> TRUE] : i \in 1..Len(tree.files) }
    \cup UNION { { [path |-> join(join(top, tree.subdirs[d].name),
                                  tree.subdirs[d].files[i].name),
                    file |-> tree.subdirs[d].files[i].file,
                    reachable |-> tree.subdirs[d].listable] :
                   i \in 1..Len(tree.subdirs[d].files) } :
                 d \in 1..Len(tree.subdirs) }

\* What open() finds at a path: the file there, a refusal below a folder
\* that cannot be entered, nothing where there is no file.
FileAt(top, tree, path) ==
    IF \E e \in DiskFiles(top, tree) : e.path = path
    THEN LET e == CHOOSE e \in DiskFiles(top, tree) : e.path = path
         IN  IF e.reachable THEN e.file ELSE [kind |-> "denied", raw |-> <<>>]
    ELSE [kind |-> "missing", raw |-> <<>>]

\* ------------------------------------------------------------------------
\* ui.py: ScanThread.run.
\* ------------------------------------------------------------------------

\* bucket_of, were is_mostly_utf tested before is_utf.
bucket_of_mostly_first(info) ==
    IF info.is_binary THEN "binary"
    ELSE IF info.is_mostly_utf THEN "mixed"
    ELSE IF info.is_utf THEN "utf"
    ELSE "non_utf"

\* The bucket categorize counts a result in.
bucket_of(info) ==
    IF info.is_binary THEN "binary"
    ELSE IF info.is_utf THEN "utf"
    ELSE IF info.is_mostly_utf THEN "mixed"
    ELSE "non_utf"

\* categorize without its last branch: a result that is neither binary nor
\* UTF nor mostly UTF is counted nowhere.
categorize_no_else(locals, info) ==
    LET bucket == bucket_of(info)
    IN  [locals EXCEPT
            !.binary_count  = IF bucket = "binary" THEN @ + 1 ELSE @,
            !.utf_count     = IF bucket = "utf" THEN @ + 1 ELSE @,
            !.mixed_count   = IF bucket = "mixed" THEN @ + 1 ELSE @,
            !.total_utf_percent = @ + info.utf_percent]

\* categorize(info), on the local variables of run.
categorize(locals, info) ==
    LET bucket == bucket_of(info)
    IN  [locals EXCEPT
            !.binary_count  = IF bucket = "binary" THEN @ + 1 ELSE @,
            !.utf_count     = IF bucket = "utf" THEN @ + 1 ELSE @,
            !.mixed_count   = IF bucket = "mixed" THEN @ + 1 ELSE @,
            !.non_utf_count = IF bucket = "non_utf" THEN @ + 1 ELSE @,
            !.total_utf_percent = @ + info.utf_percent]

\* info["file"] = full_path; info["filename"] = filename
with_identity(info, full_path, filename) ==
    info @@ [file |-> full_path, filename |-> filename]

\* round1 by cutting the digits after the first decimal.
round1_truncate(total, count, up) == total \div (10 * count)

\* round(x, 1) of x = total / count, total in hundredths: the result in
\* tenths.  As in round2, `up` is where a value halfway between two tenths
\* goes.
round1(total, count, up) ==
    LET q == total \div (10 * count)
        r == total % (10 * count)
    IN  IF 2 * r < 10 * count THEN q
        ELSE IF 2 * r > 10 * count THEN q + 1
        ELSE IF up THEN q + 1 ELSE q

\* avg_utf_of without `if results else 0.0`: the division is made whatever
\* the number of results.
avg_utf_of_unguarded(total_utf_percent, results) ==
    IF results # <<>>
    THEN { Return(round1(total_utf_percent, Len(results), up)) : up \in BOOLEAN }
    ELSE { Raise([cls |-> "ZeroDivisionError", msg |-> "float division by zero"]) }

\* avg_utf = round(total_utf_percent / len(results), 1) if results else 0.0:
\* the possible values, in tenths of a percent.
avg_utf_of(total_utf_percent, results) ==
    IF results # <<>>
    THEN { Return(round1(total_utf_percent, Len(results), up)) : up \in BOOLEAN }
    ELSE { Return(0) }

\* The local variables of run at its start, todo being the paths it has
\* still to scan: the file selected, or all_files of the folder selected.
run_start(self_file_path, self_folder_path, tree) ==
    [pc |-> "scanning",
     todo |-> IF self_file_path # None THEN <<self_file_path[1]>>
              ELSE IF self_folder_path # None
              THEN LET found == walked_files(walk(self_folder_path[1], tree))
                   IN  [i \in 1..Len(found) |-> join(found[i].root, found[i].f)]
              ELSE <<>>,
     results |-> <<>>,
     utf_count |-> 0, non_utf_count |-> 0, mixed_count |-> 0, binary_count |-> 0,
     total_utf_percent |-> 0]

\* One file of run: scan_single_file, the two identity fields, categorize.
run_file(locals, out) ==
    IF out.raised THEN [pc |-> "raised", exc |-> out.value]
    ELSE LET full_path == Head(locals.todo)
             info == with_identity(out.value, full_path, basename(full_path))
         IN  categorize([locals EXCEPT !.todo = Tail(@),
                                       !.results = Append(@, info)], info)

\* The dictionary run emits.
emitted(locals, avg_utf) ==
    [results |-> locals.results,
     utf |-> locals.utf_count,
     non_utf |-> locals.non_utf_count,
     mixed |-> locals.mixed_count,
     binary |-> locals.binary_count,
     total |-> Len(locals.results),
     avg_utf_percent |-> avg_utf]

\* ------------------------------------------------------------------------
\* validator.py: scan_folder.
\* ------------------------------------------------------------------------

RECURSIVE scan_folder_files(_, _, _, _)
\* The loop of scan_folder over the pairs (root, f) still to scan: the set of
\* its possible outcomes.
scan_folder_files(folder_path, tree, found, results) ==
    IF found = <<>> THEN { Return([results |-> results, skipped |-> <<>>]) }
    ELSE LET full_path == join(Head(found).root, Head(found).f)
         IN  UNION { IF out.raised THEN {out}
                     ELSE scan_folder_files(folder_path, tree, Tail(found),
                              Append(results,
                                     with_identity(out.value, full_path, Head(found).f))) :
                     out \in scan_single_file(full_path,
                                              FileAt(folder_path, tree, full_path)) }

\* scan_folder(folder_path), tree being the folder on disk.
scan_folder(folder_path, tree) ==
    scan_folder_files(folder_path, tree, walked_files(walk(folder_path, tree)), <<>>)

\* ------------------------------------------------------------------------
\* ui.py: display_results and export_csv.
\* ------------------------------------------------------------------------

\* csv_status, were "Mostly UTF" tested before "100% UTF".
csv_status_mostly_first(r) ==
    IF r.is_binary THEN "Binary"
    ELSE IF r.is_mostly_utf THEN "Mostly UTF"
    ELSE IF r.is_utf THEN "100% UTF"
    ELSE "Non-UTF"

\* The status of a row of the CSV report.
csv_status(r) ==
    IF r.is_binary THEN "Binary"
    ELSE IF r.is_utf THEN "100% UTF"
    ELSE IF r.is_mostly_utf THEN "Mostly UTF"
    ELSE "Non-UTF"

\* writer.writerow([...]) for one result.
csv_row(r) ==
    [filename |-> r.filename, status |-> csv_status(r),
     detected_encoding |-> r.detected_encoding,
     total_chars |-> r.total_chars, non_utf_chars |-> r.non_utf_chars,
     utf_percent |-> r.utf_percent, non_utf_percent |-> r.non_utf_percent]

\* The second row of summary_data of export_pdf: the counts of the report.
summary_data(results) ==
    LET sum1(P(_)) == Cardinality({ i \in 1..Len(results) : P(results[i]) })
        utf(r)     == r.is_utf
        mostly(r)  == r.is_mostly_utf
        non_utf(r) == ~r.is_utf /\ ~r.is_mostly_utf /\ ~r.is_binary
        binary(r)  == r.is_binary
    IN  [total |-> Len(results), utf |-> sum1(utf), mostly |-> sum1(mostly),
         non_utf |-> sum1(non_utf), binary |-> sum1(binary)]

\* The numbers display_results writes on the cards and the average bar.
cards_of(d) ==
    [total |-> d.total, utf |-> d.utf, mixed |-> d.mixed, non_utf |-> d.non_utf,
     binary |-> d.binary, avg |-> d.avg_utf_percent]

\* ------------------------------------------------------------------------
\* The inputs of a scan.
\* ------------------------------------------------------------------------

RegularFile(raw) == [kind |-> "regular", raw |-> raw]

DeniedFile == [kind |-> "denied", raw |-> <<>>]

\* The files a folder of the model may hold:
\*   a.txt  the letter A                          100% UTF
\*   b.txt  the mark EF BB BF and the letter A    100% UTF
\*   k.txt  two letters A and the byte FF         66.67, not UTF
\*   m.txt  19 letters A and the byte FF          95.0, mostly UTF
\*   t.txt  the letter A and 15 bytes FF          6.25, not UTF
\*   p.PNG  the letter A                          binary
\*   q.PNG  not readable                          binary
\*   e.txt  not readable                          error
Candidates ==
    { [name |-> <<"a", ".", "t", "x", "t">>, file |-> RegularFile(<<<<65, 1>>>>)],
      [name |-> <<"b", ".", "t", "x", "t">>,
       file |-> RegularFile(<<<<239, 1>>, <<187, 1>>, <<191, 1>>, <<65, 1>>>>)],
      [name |-> <<"k", ".", "t", "x", "t">>, file |-> RegularFile(<<<<65, 2>>, <<255, 1>>>>)],
      [name |-> <<"m", ".", "t", "x", "t">>, file |-> RegularFile(<<<<65, 19>>, <<255, 1>>>>)],
      [name |-> <<"t", ".", "t", "x", "t">>, file |-> RegularFile(<<<<65, 1>>, <<255, 15>>>>)],
      [name |-> <<"p", ".", "P", "N", "G">>, file |-> RegularFile(<<<<65, 1>>>>)],
      [name |-> <<"q", ".", "P", "N", "G">>, file |-> DeniedFile],
      [name |-> <<"e", ".", "t", "x", "t">>, file |-> DeniedFile] }

\* The files of the sub-folder s, when there is one.
SubdirFiles ==
    { <<[name |-> <<"a", ".", "t", "x", "t">>, file |-> RegularFile(<<<<65, 1>>>>)]>>,
      <<[name |-> <<"e", ".", "t", "x", "t">>, file |-> DeniedFile]>> }

\* Most files of the top folder.
MaxFiles == 2

\* The listings of the top folder: no name twice, in any order.
Listings ==
    { l \in UNION { [1..n -> Candidates] : n \in 0..MaxFiles } :
        \A i, j \in 1..Len(l) : i # j => l[i].name # l[j].name }

\* No sub-folder, or the sub-folder s, which can be listed or cannot.
SubdirChoices ==
    { <<>> } \cup
    { <<[name |-> <<"s">>, listable |-> l, files |-> f]>> :
        l \in BOOLEAN, f \in SubdirFiles }

Trees == [files : Listings, subdirs : SubdirChoices]

\* ------------------------------------------------------------------------
\* The state machine of a scan: ScanThread.run step by step, then
\* display_results and export_csv; or one call of scan_folder.
\* ------------------------------------------------------------------------

InitScan ==
    /\ file_path = <<>>
    /\ file = [kind |-> "missing", raw |-> <<>>]
    /\ pc = "unused"
    /\ result = None
    /\ \/ /\ disk \in Trees
          /\ thread = [file_path |-> None, folder_path |-> Some(Root)]
       \/ \E e \in Candidates :
             /\ disk = [files |-> <<e>>, subdirs |-> <<>>]
             /\ thread = [file_path |-> Some(join(Root, e.name)), folder_path |-> None]
       \/ /\ disk = [files |-> <<>>, subdirs |-> <<>>]
          /\ thread = [file_path |-> None, folder_path |-> None]
    /\ run = [pc |-> "idle"]
    /\ data = None
    /\ last_results = <<>>
    /\ cards = NoCards
    /\ csv_rows = None
    /\ NoWindow

\* ScanThread.run, up to its loop.
RunStart ==
    /\ run.pc = "idle"
    /\ run' = run_start(thread.file_path, thread.folder_path, disk)
    /\ UNCHANGED <<disk, thread, data, last_results, cards, csv_rows>>
    /\ UNCHANGED fvars
    /\ UNCHANGED wvars

\* ScanThread.run: one file.
RunFile ==
    /\ run.pc = "scanning"
    /\ run.todo # <<>>
    /\ \E full_path \in {Head(run.todo)} :
       \E opened \in {FileAt(Root, disk, full_path)} :
          \E out \in scan_single_file(full_path, opened) :
             run' = run_file(run, out)
    /\ UNCHANGED <<disk, thread, data, last_results, cards, csv_rows>>
    /\ UNCHANGED fvars
    /\ UNCHANGED wvars

\* ScanThread.run, after its loop: the average and finished_signal.emit.
RunEmit ==
    /\ run.pc = "scanning"
    /\ run.todo = <<>>
    /\ \E avg \in avg_utf_of(run.total_utf_percent, run.results) :
          IF avg.raised
          THEN /\ run' = [pc |-> "raised", exc |-> avg.value]
               /\ data' = data
          ELSE /\ run' = [run EXCEPT !.pc = "emitted"]
               /\ data' = emitted(run, avg.value)
    /\ UNCHANGED <<disk, thread, last_results, cards, csv_rows>>
    /\ UNCHANGED fvars
    /\ UNCHANGED wvars

\* display_results(data), the slot of finished_signal.
DisplayResults ==
    /\ run.pc = "emitted"
    /\ run' = [run EXCEPT !.pc = "displayed"]
    /\ last_results' = data.results
    /\ cards' = cards_of(data)
    /\ UNCHANGED <<disk, thread, data, csv_rows>>
    /\ UNCHANGED fvars
    /\ UNCHANGED wvars

\* export_csv, with a path chosen and the file written.
ExportCsv ==
    /\ run.pc = "displayed"
    /\ last_results # <<>>
    /\ csv_rows = None
    /\ csv_rows' = Some([i \in 1..Len(last_results) |-> csv_row(last_results[i])])
    /\ UNCHANGED <<disk, thread, run, data, last_results, cards>>
    /\ UNCHANGED fvars
    /\ UNCHANGED wvars

\* export_pdf, with a path chosen and the file written.
ExportPdf ==
    /\ run.pc = "displayed"
    /\ last_results # <<>>
    /\ pdf_summary = None
    /\ pdf_summary' = Some(summary_data(last_results))
    /\ UNCHANGED <<selected, scan_btn, export_widget, anim, ui, cleared>>
    /\ UNCHANGED svars
    /\ UNCHANGED fvars

\* One call of scan_folder on the folder selected.
ScanFolder ==
    /\ run.pc = "idle"
    /\ thread.folder_path # None
    /\ \E out \in scan_folder(thread.folder_path[1], disk) :
          run' = IF out.raised
                 THEN [pc |-> "folder_raised", exc |-> out.value]
                 ELSE [pc |-> "folder_returned",
                       results |-> out.value.results, skipped |-> out.value.skipped]
    /\ UNCHANGED <<disk, thread, data, last_results, cards, csv_rows>>
    /\ UNCHANGED fvars
    /\ UNCHANGED wvars

NextScan ==
    \/ RunStart
    \/ RunFile
    \/ RunEmit
    \/ DisplayResults
    \/ ExportCsv
    \/ ExportPdf
    \/ ScanFolder

SpecScan == InitScan /\ [][NextScan]_vars

\* ------------------------------------------------------------------------
\* The properties of scan_single_file.
\* ------------------------------------------------------------------------

\* The call is over.
Called == pc # "call"

\* The file is there and is read whole.
Readable == file.kind = "regular"

\* The path has none of the binary extensions.
TextExtension == lower(splitext_ext(file_path)) \notin BINARY_EXTENSIONS

\* The number of invalid byte sequences of the content.
InvalidSequences == decode_replace(file.raw).subst

\* The content holds the byte b.
ContainsByte(b) == \E i \in 1..Len(file.raw) : file.raw[i][1] = b

\* C1: a readable file without a binary extension whose whole content is
\* valid UTF-8 is returned with is_utf true, utf_percent 100.0 and
\* non_utf_chars 0.
C1_ValidIsUtf ==
    (Called /\ Readable /\ TextExtension /\ InvalidSequences = 0)
        => /\ pc = "returned"
           /\ result.is_utf
           /\ result.utf_percent = 10000
           /\ result.non_utf_chars = 0

\* A valid file holding a character of several bytes has been classified.
C1_Witness ==
    /\ pc = "returned" /\ Readable /\ TextExtension
    /\ InvalidSequences = 0
    /\ decode_replace(file.raw).len < len(file.raw)
    /\ result.is_utf /\ result.utf_percent = 10000

\* C2: a readable file whose content holds an invalid byte sequence is
\* returned with is_utf false, and the failed strict decode is not reported
\* as an error.
C2_InvalidIsNotUtf ==
    (Called /\ Readable /\ InvalidSequences > 0)
        => /\ pc = "returned"
           /\ ~result.is_utf
           /\ result.error = None
           /\ result.detected_encoding # "Error"

\* A file with valid characters and an invalid sequence has been classified
\* by Step 2.
C2_Witness ==
    /\ pc = "returned" /\ Readable /\ TextExtension
    /\ InvalidSequences > 0
    /\ ~result.is_utf /\ result.error = None
    /\ result.non_utf_chars > 0 /\ result.non_utf_chars < result.total_chars

\* C3: in every result, is_utf implies is_mostly_utf, utf_percent 100.0 and
\* non_utf_chars 0.
C3_IsUtfInvariant ==
    pc = "returned"
        => (result.is_utf
              => /\ result.is_mostly_utf
                 /\ result.utf_percent = 10000
                 /\ result.non_utf_chars = 0)

\* A result with is_utf true and characters counted.
C3_Witness ==
    /\ pc = "returned"
    /\ result.is_utf /\ result.is_mostly_utf /\ result.total_chars > 0

\* C4: a path whose extension, lower-cased, is a binary extension is returned
\* as binary with utf_percent 0.0, non_utf_percent 100.0, is_utf and
\* is_mostly_utf false and no error, whatever the file holds and whether it
\* can be read at all.
C4_BinaryGate ==
    (Called /\ ~TextExtension)
        => /\ pc = "returned"
           /\ result.is_binary
           /\ result.utf_percent = 0
           /\ result.non_utf_percent = 10000
           /\ ~result.is_utf
           /\ ~result.is_mostly_utf
           /\ result.error = None

\* a.PNG holding valid UTF-8 text has been returned as binary.
C4_Witness ==
    /\ pc = "returned"
    /\ file_path = <<"a", ".", "P", "N", "G">>
    /\ Readable /\ len(file.raw) > 0 /\ InvalidSequences = 0
    /\ result.is_binary /\ result.utf_percent = 0

\* C5: a readable file of no bytes without a binary extension is returned
\* with is_utf and is_mostly_utf true, total_chars 0, non_utf_chars 0,
\* utf_percent 100.0 and the label "UTF-8 (empty)".
C5_EmptyFile ==
    (Called /\ Readable /\ TextExtension /\ len(file.raw) = 0)
        => /\ pc = "returned"
           /\ result.is_utf
           /\ result.is_mostly_utf
           /\ result.total_chars = 0
           /\ result.non_utf_chars = 0
           /\ result.utf_percent = 10000
           /\ result.detected_encoding = "UTF-8 (empty)"

\* An empty file has been classified.
C5_Witness ==
    /\ pc = "returned" /\ Readable /\ TextExtension
    /\ file.raw = <<>>
    /\ result.detected_encoding = "UTF-8 (empty)"

\* The content starts with the bytes EF BB BF.
StartsWithMark ==
    /\ Len(file.raw) >= 3
    /\ file.raw[1] = <<239, 1>> /\ file.raw[2] = <<187, 1>> /\ file.raw[3] = <<191, 1>>

\* C6: a file of at least one byte that is valid UTF-8 is labelled
\* "UTF-8 (BOM)" exactly when its bytes start with EF BB BF and "UTF-8"
\* otherwise, with is_utf true in both cases.
C6_BomLabel ==
    (Called /\ Readable /\ TextExtension /\ len(file.raw) > 0 /\ InvalidSequences = 0)
        => /\ pc = "returned"
           /\ result.is_utf
           /\ result.detected_encoding =
                 IF StartsWithMark THEN "UTF-8 (BOM)" ELSE "UTF-8"

\* The mark followed by the ASCII letter A has been labelled "UTF-8 (BOM)".
C6_Witness ==
    /\ pc = "returned" /\ TextExtension /\ Readable
    /\ file.raw = <<<<239, 1>>, <<187, 1>>, <<191, 1>>, <<65, 1>>>>
    /\ result.detected_encoding = "UTF-8 (BOM)" /\ result.is_utf

\* C7 as stated: a readable file holding the byte FF is returned with is_utf
\* false and a reported utf_percent strictly between 0 and 100.
C7_StrictlyBetween ==
    (Called /\ Readable /\ TextExtension /\ ContainsByte(255))
        => /\ pc = "returned"
           /\ ~result.is_utf
           /\ result.utf_percent > 0
           /\ result.utf_percent < 10000

\* C7 as amended: a readable file holding the byte FF is returned with is_utf
\* false, at least one placeholder counted and a reported utf_percent from 0
\* to 100; it is 0.0 only when at most one decoded character in 20000 is
\* valid, and 100.0 only when at most one in 20000 is a placeholder.
C7_BetweenUpToRounding ==
    (Called /\ Readable /\ TextExtension /\ ContainsByte(255))
        => /\ pc = "returned"
           /\ ~result.is_utf
           /\ result.error = None
           /\ result.non_utf_chars >= 1
           /\ result.non_utf_chars <= result.total_chars
           /\ result.utf_percent >= 0
           /\ result.utf_percent <= 10000
           /\ result.utf_percent = 0
                 => (result.total_chars - result.non_utf_chars) * 20000 <= result.total_chars
           /\ result.utf_percent = 10000
                 => result.non_utf_chars * 20000 <= result.total_chars

\* 20000 letters A and one byte FF have been reported as 100.0 percent UTF,
\* with is_utf false.
C7_Witness ==
    /\ pc = "returned" /\ Readable /\ TextExtension
    /\ file.raw = <<<<65, 20000>>, <<255, 1>>>>
    /\ ~result.is_utf
    /\ result.utf_percent = 10000
    /\ result.non_utf_chars = 1

\* C8: in every result that is neither binary nor an error, utf_percent and
\* non_utf_percent as reported add up to 100.0 within 0.01.
C8_PercentsAddUp ==
    (pc = "returned" /\ ~result.is_binary /\ result.error = None)
        => /\ result.utf_percent + result.non_utf_percent >= 9999
           /\ result.utf_percent + result.non_utf_percent <= 10001

\* Two valid characters and one placeholder have been reported as 66.67 and
\* 33.33 percent.
C8_Witness ==
    /\ pc = "returned" /\ ~result.is_binary /\ result.error = None
    /\ ~result.is_utf
    /\ result.total_chars = 3 /\ result.non_utf_chars = 1
    /\ result.utf_percent = 6667 /\ result.non_utf_percent = 3333

\* C9: in every result that is not binary, is_mostly_utf is true exactly when
\* is_utf is true or the utf_percent reported is at least 90.0.
C9_MostlyUtfOfReported ==
    (pc = "returned" /\ ~result.is_binary)
        => (result.is_mostly_utf <=> (result.is_utf \/ result.utf_percent >= 9000))

\* C10: no call of scan_single_file raises; a path without a binary extension
\* whose file cannot be opened or read is returned in the error shape, with
\* the message of the operating system when there is one.
C10_NeverRaises ==
    Called
        => /\ pc = "returned"
           /\ (TextExtension /\ ~Readable)
                 => /\ result.error # None
                    /\ (file.kind \in OpenFailures \cup {"io_error"}
                          => result.error[1] # "")
                    /\ result.detected_encoding = "Error"
                    /\ result.utf_percent = 0
                    /\ result.non_utf_percent = 10000
                    /\ result.total_chars = 0
                    /\ result.non_utf_chars = 0
                    /\ ~result.is_utf
                    /\ ~result.is_mostly_utf
                    /\ ~result.is_binary

\* A file that does not exist, under the path .png, has been returned in the
\* error shape with the message of the operating system.
C10_Witness ==
    /\ pc = "returned"
    /\ file_path = <<".", "p", "n", "g">>
    /\ file.kind = "missing"
    /\ result.detected_encoding = "Error"
    /\ result.error = Some("[Errno 2] No such file or directory: '.png'")

\* ------------------------------------------------------------------------
\* ui.py: the window, UTFValidatorApp, with its ScanThread and AnimThread.
\* ------------------------------------------------------------------------

\* The folder the window of the model works on: r, with a.txt (100% UTF) and
\* k.txt (66.67%, not UTF).
AppDisk ==
    [files |-> << [name |-> <<"a", ".", "t", "x", "t">>,
                   file |-> RegularFile(<<<<65, 1>>>>)],
                  [name |-> <<"k", ".", "t", "x", "t">>,
                   file |-> RegularFile(<<<<65, 2>>, <<255, 1>>>>)] >>,
     subdirs |-> <<>>]

\* What QFileDialog.getOpenFileName may return: a file of the folder, or the
\* empty string when the dialog is cancelled.
FileChoices == { Some(join(Root, AppDisk.files[i].name)) : i \in 1..Len(AppDisk.files) }
                   \cup { None }

\* What QFileDialog.getExistingDirectory may return: the folder, or the empty
\* string.
FolderChoices == { Some(Root), None }

\* self.scan_btn.setEnabled(False) of start_scan, were it left out.
scan_btn_left_enabled == TRUE

\* self.scan_btn.setEnabled(False) of start_scan: the button after it.
scan_btn_after_start == FALSE

\* The test of the loop of AnimThread.run, were the request never seen.
isInterruptionRequested_never(a) == FALSE

\* self.isInterruptionRequested(), a being the AnimThread.
isInterruptionRequested(a) == a.interrupted

\* The event loop of the main thread runs, at top level or inside a modal
\* dialog, and no handler is under way: a queued signal can be delivered.
EventLoop == ui.handler = "none"

\* The user can click a button of the window: no modal dialog is open.
CanClick == ui.handler = "none" /\ ui.loop = "window"

\* clear_results
clear_results ==
    /\ last_results' = <<>>
    /\ cards' = NoCards
    /\ export_widget' = FALSE

InitApp ==
    /\ file_path = <<>>
    /\ file = [kind |-> "missing", raw |-> <<>>]
    /\ pc = "unused"
    /\ result = None
    /\ disk = AppDisk
    /\ thread = [file_path |-> None, folder_path |-> None]
    /\ run = [pc |-> "none"]
    /\ data = None
    /\ last_results = <<>>
    /\ cards = NoCards
    /\ csv_rows = None
    /\ pdf_summary = None
    /\ selected = [file |-> None, folder |-> None]
    /\ scan_btn = TRUE
    /\ export_widget = FALSE
    /\ anim = [pc |-> "none", interrupted |-> FALSE]
    /\ ui = [loop |-> "window", handler |-> "none"]
    /\ cleared = FALSE

\* What no handler of the window and no thread of it changes.
avars == <<file_path, file, pc, result, disk, csv_rows, pdf_summary>>

\* select_file, up to the dialog: QFileDialog.getOpenFileName opens.
SelectFile ==
    /\ CanClick
    /\ ui' = [ui EXCEPT !.loop = "file_dialog"]
    /\ UNCHANGED <<thread, run, data, last_results, cards>>
    /\ UNCHANGED <<selected, scan_btn, export_widget, anim, cleared>>
    /\ UNCHANGED avars

\* select_file, from the return of the dialog.
SelectFileReturn ==
    /\ EventLoop
    /\ ui.loop = "file_dialog"
    /\ ui' = [ui EXCEPT !.loop = "window"]
    /\ \E choice \in FileChoices :
          IF choice # None
          THEN /\ selected' = [file |-> choice, folder |-> None]
               /\ clear_results
               /\ cleared' = TRUE
          ELSE UNCHANGED <<selected, last_results, cards, export_widget, cleared>>
    /\ UNCHANGED <<thread, run, data, scan_btn, anim>>
    /\ UNCHANGED avars

\* select_folder, up to the dialog: QFileDialog.getExistingDirectory opens.
SelectFolder ==
    /\ CanClick
    /\ ui' = [ui EXCEPT !.loop = "folder_dialog"]
    /\ UNCHANGED <<thread, run, data, last_results, cards>>
    /\ UNCHANGED <<selected, scan_btn, export_widget, anim, cleared>>
    /\ UNCHANGED avars

\* select_folder, from the return of the dialog.
SelectFolderReturn ==
    /\ EventLoop
    /\ ui.loop = "folder_dialog"
    /\ ui' = [ui EXCEPT !.loop = "window"]
    /\ \E choice \in FolderChoices :
          IF choice # None
          THEN /\ selected' = [file |-> None, folder |-> choice]
               /\ clear_results
               /\ cleared' = TRUE
          ELSE UNCHANGED <<selected, last_results, cards, export_widget, cleared>>
    /\ UNCHANGED <<thread, run, data, scan_btn, anim>>
    /\ UNCHANGED avars

\* clear_results, from the Clear Results button.
ClearResults ==
    /\ CanClick
    /\ clear_results
    /\ cleared' = TRUE
    /\ UNCHANGED <<thread, run, data>>
    /\ UNCHANGED <<selected, scan_btn, anim, ui>>
    /\ UNCHANGED avars

\* start_scan, from the Start Scan button, which gives no click when it is
\* disabled.  With nothing selected it shows a message box and returns.
StartScan ==
    /\ CanClick
    /\ scan_btn
    /\ IF selected.file = None /\ selected.folder = None
       THEN /\ ui' = [ui EXCEPT !.loop = "message_box"]
            /\ UNCHANGED <<thread, run, data, last_results, cards>>
            /\ UNCHANGED <<scan_btn, export_widget, anim, cleared>>
       ELSE /\ clear_results
            /\ scan_btn' = scan_btn_after_start
            /\ anim' = [pc |-> "test", interrupted |-> FALSE]
            /\ thread' = [file_path |-> selected.file, folder_path |-> selected.folder]
            /\ run' = [pc |-> "idle"]
            /\ data' = None
            /\ cleared' = FALSE
            /\ ui' = ui
    /\ UNCHANGED selected
    /\ UNCHANGED avars

\* The message box of start_scan is closed.
MessageBoxClosed ==
    /\ EventLoop
    /\ ui.loop = "message_box"
    /\ ui' = [ui EXCEPT !.loop = "window"]
    /\ UNCHANGED <<thread, run, data, last_results, cards>>
    /\ UNCHANGED <<selected, scan_btn, export_widget, anim, cleared>>
    /\ UNCHANGED avars

\* AnimThread.run: the test of the loop holds, msleep(1000) begins.
AnimSleep ==
    /\ anim.pc = "test"
    /\ ~isInterruptionRequested(anim)
    /\ anim' = [anim EXCEPT !.pc = "sleep"]
    /\ UNCHANGED <<thread, run, data, last_results, cards>>
    /\ UNCHANGED <<selected, scan_btn, export_widget, ui, cleared>>
    /\ UNCHANGED avars

\* AnimThread.run: msleep returns, tick is emitted unless interruption is
\* requested, and the loop goes back to its test.
AnimWake ==
    /\ anim.pc = "sleep"
    /\ anim' = [anim EXCEPT !.pc = "test"]
    /\ UNCHANGED <<thread, run, data, last_results, cards>>
    /\ UNCHANGED <<selected, scan_btn, export_widget, ui, cleared>>
    /\ UNCHANGED avars

\* AnimThread.run: the test of the loop fails, run returns.
AnimExit ==
    /\ anim.pc = "test"
    /\ isInterruptionRequested(anim)
    /\ anim' = [anim EXCEPT !.pc = "finished"]
    /\ UNCHANGED <<thread, run, data, last_results, cards>>
    /\ UNCHANGED <<selected, scan_btn, export_widget, ui, cleared>>
    /\ UNCHANGED avars

\* display_results, delivered by the event loop for the finished_signal
\* emitted: self._anim.requestInterruption(), then self._anim.wait() blocks
\* the main thread.
DisplayResultsWait ==
    /\ EventLoop
    /\ run.pc = "emitted"
    /\ anim' = [anim EXCEPT !.interrupted = TRUE]
    /\ ui' = [ui EXCEPT !.handler = "display_results"]
    /\ UNCHANGED <<thread, run, data, last_results, cards>>
    /\ UNCHANGED <<selected, scan_btn, export_widget, cleared>>
    /\ UNCHANGED avars

\* display_results, from the return of wait(): the AnimThread has finished.
DisplayResultsShow ==
    /\ ui.handler = "display_results"
    /\ anim.pc = "finished"
    /\ scan_btn' = TRUE
    /\ export_widget' = TRUE
    /\ last_results' = data.results
    /\ cards' = cards_of(data)
    /\ run' = [run EXCEPT !.pc = "displayed"]
    /\ ui' = [ui EXCEPT !.handler = "none"]
    /\ UNCHANGED <<thread, data, selected, anim, cleared>>
    /\ UNCHANGED avars

NextApp ==
    \/ SelectFile
    \/ SelectFileReturn
    \/ SelectFolder
    \/ SelectFolderReturn
    \/ ClearResults
    \/ StartScan
    \/ MessageBoxClosed
    \/ RunStart
    \/ RunFile
    \/ RunEmit
    \/ AnimSleep
    \/ AnimWake
    \/ AnimExit
    \/ DisplayResultsWait
    \/ DisplayResultsShow

SpecApp == InitApp /\ [][NextApp]_vars

\* The threads run and the event loop delivers: the operating system
\* schedules the ScanThread and the AnimThread, every file read returns or
\* fails, msleep returns, and a queued finished_signal is handled.
FairApp ==
    /\ WF_vars(RunStart \/ RunFile \/ RunEmit)
    /\ WF_vars(AnimSleep \/ AnimWake \/ AnimExit)
    /\ WF_vars(DisplayResultsWait \/ DisplayResultsShow)

SpecAppFair == SpecApp /\ FairApp

\* ------------------------------------------------------------------------
\* The properties of a scan.
\* ------------------------------------------------------------------------

\* run has local variables: it has started and has not raised.
Running == run.pc \in {"scanning", "emitted", "displayed"}

\* run has emitted its dictionary.
Emitted == run.pc \in {"emitted", "displayed"}

\* The results among those of a sequence that satisfy P.
Count(results, P(_)) == Cardinality({ i \in 1..Len(results) : P(results[i]) })

\* C11: every result is tallied into exactly one of the four buckets: a
\* binary result is neither UTF nor mostly UTF, so at most one of is_binary,
\* is_utf, (is_mostly_utf and not is_utf) holds, and the utf, mixed, non_utf
\* and binary counts run emits add up to the total it emits.
C11_ExactlyOneBucket ==
    /\ Running =>
          \A i \in 1..Len(run.results) :
             LET info == run.results[i]
             IN  /\ info.is_binary => ~info.is_utf /\ ~info.is_mostly_utf
                 /\ Cardinality({ b \in {"binary", "utf", "mixed"} :
                       \/ b = "binary" /\ info.is_binary
                       \/ b = "utf" /\ info.is_utf
                       \/ b = "mixed" /\ info.is_mostly_utf /\ ~info.is_utf }) <= 1
    /\ Emitted =>
          /\ data.utf + data.mixed + data.non_utf + data.binary = data.total
          /\ data.total = Len(data.results)

\* A folder of a binary file and a file that is not UTF has been scanned.
C11_Witness ==
    /\ Emitted
    /\ data.total = 2
    /\ data.binary = 1
    /\ data.non_utf = 1

\* The scan enumerates no file: no file is selected, and no folder is
\* selected or no file lies in a folder of it that can be listed.
ZeroFiles ==
    /\ thread.file_path = None
    /\ thread.folder_path # None =>
          \A e \in DiskFiles(thread.folder_path[1], disk) : ~e.reachable

\* C12: a scan that enumerates no file raises nothing and emits total 0,
\* the four counts 0 and avg_utf_percent 0.0.
C12_ZeroFiles ==
    ZeroFiles =>
       /\ run.pc # "raised"
       /\ Emitted =>
             /\ data.results = <<>>
             /\ data.total = 0
             /\ data.utf = 0 /\ data.mixed = 0 /\ data.non_utf = 0 /\ data.binary = 0
             /\ data.avg_utf_percent = 0

\* An empty folder has been scanned.
C12_Witness ==
    /\ Emitted
    /\ ZeroFiles
    /\ thread.folder_path # None
    /\ disk.files = <<>>
    /\ disk.subdirs = <<>>

\* Every result of the sequence is 100% UTF: is_utf true, not binary.
AllUtf(results) ==
    \A i \in 1..Len(results) : results[i].is_utf /\ ~results[i].is_binary

\* C13: when run has scanned N >= 1 files and every result is 100% UTF, it
\* emits utf = N, mixed = non_utf = binary = 0 and avg_utf_percent = 100.0.
C13_AllUtf ==
    (Emitted /\ Len(data.results) >= 1 /\ AllUtf(data.results)) =>
       /\ data.utf = Len(data.results)
       /\ data.total = Len(data.results)
       /\ data.mixed = 0 /\ data.non_utf = 0 /\ data.binary = 0
       /\ data.avg_utf_percent = 1000

\* A folder of two files, both 100% UTF, has been scanned.
C13_Witness ==
    /\ Emitted
    /\ Len(data.results) = 2
    /\ AllUtf(data.results)
    /\ data.utf = 2

RECURSIVE SumUtfPercent(_)
\* The sum of utf_percent over the results, in hundredths of a percent.
SumUtfPercent(results) ==
    IF results = <<>> THEN 0
    ELSE Head(results).utf_percent + SumUtfPercent(Tail(results))

\* avg, in tenths of a percent, is sum / count rounded to one decimal: no
\* further from it than half a tenth.
IsRounded1(avg, sum, count) ==
    LET diff == avg * 10 * count - sum
    IN  2 * (IF diff < 0 THEN -diff ELSE diff) <= 10 * count

\* C14: the avg_utf_percent run emits is the sum of utf_percent over all the
\* results, binary and error results included with 0.0 each, divided by the
\* number of results and rounded to one decimal; it is 0.0 without results.
C14_Average ==
    Emitted =>
       /\ \A i \in 1..Len(data.results) :
             (data.results[i].is_binary \/ data.results[i].error # None)
                => data.results[i].utf_percent = 0
       /\ IF data.results = <<>>
          THEN data.avg_utf_percent = 0
          ELSE IsRounded1(data.avg_utf_percent, SumUtfPercent(data.results),
                          Len(data.results))

\* A folder of a file of 66.67% and a binary file has been scanned: the
\* average is 33.3.
C14_Witness ==
    /\ Emitted
    /\ Len(data.results) = 2
    /\ \E i, j \in 1..2 :
          /\ data.results[i].is_binary
          /\ data.results[j].utf_percent = 6667
    /\ data.avg_utf_percent = 333

\* The files os.walk enumerates under the folder selected: those of the
\* folders that can be listed.
Enumerated == { e \in DiskFiles(thread.folder_path[1], disk) : e.reachable }

\* C15: scan_folder returns exactly one result per file enumerated under the
\* folder, whatever its extension, each with file = its full path and
\* filename = its base name, and an empty list of skipped files.
C15_ScanFolder ==
    run.pc = "folder_returned" =>
       /\ Len(run.results) = Cardinality(Enumerated)
       /\ \A e \in Enumerated :
             Cardinality({ i \in 1..Len(run.results) : run.results[i].file = e.path }) = 1
       /\ \A i \in 1..Len(run.results) :
             /\ \E e \in Enumerated : run.results[i].file = e.path
             /\ run.results[i].filename = basename(run.results[i].file)
       /\ run.skipped = <<>>

\* scan_folder has returned three results: for a file with a binary
\* extension, for a text file and for a file of a sub-folder.
C15_Witness ==
    /\ run.pc = "folder_returned"
    /\ Len(run.results) = 3
    /\ \E i \in 1..3 : run.results[i].is_binary
    /\ \E i \in 1..3 : run.results[i].file = <<"r", "/", "s", "/", "a", ".", "t", "x", "t">>
    /\ \E i \in 1..3 : run.results[i].filename = <<"k", ".", "t", "x", "t">>

\* A folder scan is over: run has emitted for the folder selected, or
\* scan_folder has returned.
FolderScanned ==
    \/ Emitted /\ thread.folder_path # None
    \/ run.pc = "folder_returned"

\* The results of the folder scan that is over.
FolderResults == IF run.pc = "folder_returned" THEN run.results ELSE data.results

\* The scan has failed as a whole: an exception has left run or scan_folder.
FailedAsAWhole == run.pc \in {"raised", "folder_raised"}

\* The result of the scan for the file at a path is an error result.
IsErrorResult(r) == r.error # None /\ r.detected_encoding = "Error"

\* C16 as the specification states it: a folder scan never fails as a whole,
\* every enumerated file gets a result, and each unreadable file is seen as
\* a result whose error is set and whose label is "Error".
C16_EachUnreadableIsError ==
    /\ ~FailedAsAWhole
    /\ FolderScanned =>
          \A e \in Enumerated :
             \E i \in 1..Len(FolderResults) :
                /\ FolderResults[i].file = e.path
                /\ e.file.kind # "regular" => IsErrorResult(FolderResults[i])

\* C16: a folder scan never fails as a whole: whatever unreadable files and
\* sub-folders that cannot be listed the tree holds, every enumerated file
\* gets a result, a readable one without an error, and each unreadable file
\* whose extension is not a binary one is seen as a result whose error is
\* set and whose label is "Error"; an unreadable file with a binary
\* extension is never opened and is seen as a binary result with no error.
C16_NeverFailsAsAWhole ==
    /\ ~FailedAsAWhole
    /\ FolderScanned =>
          \A e \in Enumerated :
             \E i \in 1..Len(FolderResults) :
                LET r == FolderResults[i]
                IN  /\ r.file = e.path
                    /\ e.file.kind = "regular" => r.error = None
                    /\ (e.file.kind # "regular" /\ ~is_binary_ext(e.path))
                          => IsErrorResult(r) /\ ~r.is_binary
                    /\ (e.file.kind # "regular" /\ is_binary_ext(e.path))
                          => r.is_binary /\ r.error = None

\* run has emitted for a folder that holds an unreadable text file, a
\* readable file and a sub-folder that cannot be listed.
C16_Witness ==
    /\ Emitted
    /\ thread.folder_path # None
    /\ disk.subdirs # <<>>
    /\ ~disk.subdirs[1].listable
    /\ data.total = 2
    /\ \E i, j \in 1..2 :
          /\ IsErrorResult(data.results[i])
          /\ data.results[j].is_utf

\* The paths of the sub-folders of the folder selected that cannot be listed.
Unlistable ==
    { join(thread.folder_path[1], disk.subdirs[d].name) :
        d \in { d \in 1..Len(disk.subdirs) : ~disk.subdirs[d].listable } }

\* The list of skipped paths of the folder scan that is over: the second
\* value of scan_folder; run keeps none.
FolderSkipped == IF run.pc = "folder_returned" THEN run.skipped ELSE <<>>

\* C17: a sub-folder that cannot be listed is recorded by the folder scan:
\* its path is in the skipped list, or an error result of the scan carries
\* it.
C17_TraversalErrorRecorded ==
    FolderScanned =>
       \A p \in Unlistable :
          \/ \E i \in 1..Len(FolderSkipped) : FolderSkipped[i] = p
          \/ \E i \in 1..Len(FolderResults) :
                /\ FolderResults[i].file = p
                /\ IsErrorResult(FolderResults[i])

\* The CSV report has been written.
Exported == csv_rows # None

\* The rows of the report with a status.
RowsWith(status) ==
    Cardinality({ i \in 1..Len(csv_rows[1]) : csv_rows[1][i].status = status })

\* C18: the status of each row of the CSV report is the first that matches
\* of Binary, 100% UTF, Mostly UTF, Non-UTF, one status per result, and it
\* names the bucket categorize counted the result in: the rows of each
\* status are as many as the count run emitted for the bucket.
C18_CsvStatus ==
    Exported =>
       /\ Len(csv_rows[1]) = Len(data.results)
       /\ \A i \in 1..Len(csv_rows[1]) :
             LET r == data.results[i]
                 status == csv_rows[1][i].status
             IN  /\ csv_rows[1][i].filename = r.filename
                 /\ status \in {"Binary", "100% UTF", "Mostly UTF", "Non-UTF"}
                 /\ status = "Binary" <=> r.is_binary
                 /\ status = "100% UTF" <=> (~r.is_binary /\ r.is_utf)
                 /\ status = "Mostly UTF" <=>
                       (~r.is_binary /\ ~r.is_utf /\ r.is_mostly_utf)
                 /\ status = "Non-UTF" <=>
                       (~r.is_binary /\ ~r.is_utf /\ ~r.is_mostly_utf)
       /\ RowsWith("Binary") = data.binary
       /\ RowsWith("100% UTF") = data.utf
       /\ RowsWith("Mostly UTF") = data.mixed
       /\ RowsWith("Non-UTF") = data.non_utf

\* A report of a 100% UTF file and a mostly UTF file has been written.
C18_Witness ==
    /\ Exported
    /\ Len(csv_rows[1]) = 2
    /\ RowsWith("100% UTF") = 1
    /\ RowsWith("Mostly UTF") = 1

\* ------------------------------------------------------------------------
\* More properties of scan_single_file: Step 2.
\* ------------------------------------------------------------------------

\* scan_single_file has returned from Step 2: the file was read, its
\* extension is not a binary one and its content is not valid UTF-8.
FallbackPhase == Called /\ Readable /\ TextExtension /\ InvalidSequences > 0

\* pct, in hundredths of a percent, is 100 * count / total rounded to two
\* decimals: no further from it than half a hundredth.
IsRounded2(pct, count, total) ==
    LET diff == pct * total - 10000 * count
    IN  2 * (IF diff < 0 THEN -diff ELSE diff) <= total

C20_CountsSubstitutions ==
    FallbackPhase =>
       /\ result.total_chars = decode_replace(file.raw).len
       /\ result.non_utf_chars = InvalidSequences

\* ------------------------------------------------------------------------
\* The properties of the PDF report.
\* ------------------------------------------------------------------------

\* The PDF report has been written.
PdfExported == pdf_summary # None

\* C21: the counts export_pdf writes put each result in exactly one of 100%
\* UTF, Mostly UTF, Non-UTF and Binary: they add up to the Total Files it
\* writes, and they are the counts run emitted for the same results.
C21_PdfCounts ==
    PdfExported =>
       LET pdf == pdf_summary[1]
       IN  /\ pdf.total = data.total
           /\ pdf.utf + pdf.mostly + pdf.non_utf + pdf.binary = pdf.total
           /\ pdf.utf = data.utf
           /\ pdf.mostly = data.mixed
           /\ pdf.non_utf = data.non_utf
           /\ pdf.binary = data.binary

\* ------------------------------------------------------------------------
\* The properties of the window.
\* ------------------------------------------------------------------------

\* A ScanThread is in flight: started, its finished_signal not yet handled
\* to the end by display_results.
InFlight == run.pc \in {"idle", "scanning", "emitted"}

\* C22: once clear_results has run, from the Clear button or from the
\* selection of a file or a folder, and until a scan started after it
\* completes, _last_results is empty, the cards show 0 and the export buttons
\* are hidden: the results of a scan started before the clear are not
\* displayed after it.
C22_ClearedStaysCleared ==
    cleared =>
       /\ last_results = <<>>
       /\ cards = NoCards
       /\ ~export_widget

\* Neither a file nor a folder is selected.
NothingSelected == selected.file = None /\ selected.folder = None

\* C23: at most one ScanThread is in flight.  The Start Scan button is
\* disabled exactly while a thread is in flight, from start_scan to the end
\* of display_results; start_scan starts a thread only when none is in
\* flight, whatever was selected or cleared meanwhile; and start_scan with
\* neither a file nor a folder selected starts no thread.
C23_OneScanInFlight ==
    /\ [](scan_btn <=> ~InFlight)
    /\ [][(StartScan /\ ~NothingSelected) => (~InFlight /\ InFlight')]_vars
    /\ [][(StartScan /\ NothingSelected) => UNCHANGED <<thread, run, anim, scan_btn>>]_vars

\* A scan of a file has emitted and is not yet displayed; meanwhile the
\* folder was selected, which cleared the results; the button is disabled.
C23_Witness ==
    /\ run.pc = "emitted"
    /\ ~scan_btn
    /\ cleared
    /\ thread.file_path # None
    /\ selected.folder # None

\* The files the ScanThread in flight has to classify: the file it was
\* given, or the files os.walk enumerates under its folder.
ToClassify ==
    IF thread.file_path # None THEN {thread.file_path[1]}
    ELSE IF thread.folder_path # None
    THEN { e.path : e \in { d \in DiskFiles(thread.folder_path[1], disk) : d.reachable } }
    ELSE {}

\* C24: every started scan completes.  What run emits holds a result for
\* every file it had to classify, and a scan in flight always leads to the
\* end of display_results: the AnimThread has left its loop, the results are
\* shown and the Start Scan button is enabled again.
C24_ScanCompletes ==
    /\ [](run.pc = "emitted" =>
             /\ Len(data.results) = Cardinality(ToClassify)
             /\ \A p \in ToClassify :
                   \E i \in 1..Len(data.results) : data.results[i].file = p)
    /\ InFlight ~> (run.pc = "displayed" /\ scan_btn /\ anim.pc = "finished")

\* The scan of the folder is over: both results are shown, the AnimThread
\* has finished and the button is enabled.
C24_Witness ==
    /\ run.pc = "displayed"
    /\ thread.folder_path # None
    /\ Len(last_results) = 2
    /\ anim.pc = "finished"
    /\ scan_btn

\* ------------------------------------------------------------------------
\* The counts of Step 2.
\* ------------------------------------------------------------------------

\* The result has the shape of Step 2: not UTF, not binary, no error.
FallbackShape ==
    /\ pc = "returned"
    /\ ~result.is_utf
    /\ ~result.is_binary
    /\ result.error = None

\* C25: every result of Step 2 has total_chars >= 1 and
\* 1 <= non_utf_chars <= total_chars: the branch for total_chars = 0 is never
\* taken there, and the percentage of valid characters, before rounding, is
\* below 100.
C25_FallbackCounts ==
    FallbackShape =>
       /\ result.total_chars >= 1
       /\ result.non_utf_chars >= 1
       /\ result.non_utf_chars <= result.total_chars
       /\ 100 * (result.total_chars - result.non_utf_chars) < 100 * result.total_chars

\* The file of the single byte FF has been returned with one character, a
\* placeholder.
C25_Witness ==
    /\ FallbackShape
    /\ file.raw = <<<<255, 1>>>>
    /\ result.total_chars = 1
    /\ result.non_utf_chars = 1

====
